---- MODULE Spec2Model ----
(***************************************************************************)
(* Model of GrimoireELK's GitHub repository lister                         *)
(* (utils/get_git_repos.py) and of the Perceval Backend base class         *)
(* (perceval/backends/backend.py).                                         *)
(*                                                                         *)
(* Spec        : one run of get_repositories against a remote that answers *)
(*               every GET with an arbitrary status and header set.        *)
(* SpecBackend : construction of one Backend followed by persist calls.    *)
(* SpecSleep   : the rate-limit backoff of get_owner_repos_url on its own.  *)
(* SpecShape   : the filtering stage of get_repositories on its own.        *)
(* SpecFilter  : one call of get_repository_filter (grimoire_elk/elk/utils).*)
(***************************************************************************)
EXTENDS Integers, Sequences, FiniteSets, TLC

\* ------------------------------------------------------------------ bounds
MaxPages   == 2      \* longest chain of pages the remote serves
MaxPerPage == 1      \* most records in one page
MaxNrepos  == 1      \* largest nrepos argument
StartTime  == 100    \* epoch second at which the run starts
MaxCalls   == 3      \* persist calls made on one Backend
MaxItems   == 2      \* longest item list handed to one persist call
MaxRecords == 3      \* longest record list handed to the filtering stage

\* --------------------------------------------------------------- constants
DaySeconds == 86400  \* range of timedelta.seconds

VARIABLES
    \* ---- get_git_repos.py
    tz,          \* host timezone offset in seconds (local = UTC + tz)
    now,         \* wall clock, epoch seconds
    nrepos,      \* argument of get_repositories
    pages,       \* what the remote serves: a chain of pages of records
    pc,          \* "probe" | "page" | "done" | "raised"
    url,         \* next URL to get: [ep |-> "org" | "user", idx |-> page]
    all_repos,   \* records accumulated by the page loop
    result,      \* value returned by get_repositories
    requests,    \* every GET issued so far, in order
    lastResp,    \* the answer to the most recent GET
    slept,       \* durations handed to sleep(), in order
    err,         \* exception that reached the caller, or "none"
    \* ---- backend.py
    bstate,      \* "none" | "ready" | "raised"
    use_cache,   \* self.use_cache
    incremental, \* self.incremental
    requested,   \* the arguments __init__ was called with
    dirExists,   \* storage dir present on disk
    cache,       \* ids held by the on-disk cache
    cleanCalls,  \* number of cache.clean() calls
    restoreCalls,\* number of _restore_state() calls
    elastic,     \* TRUE once set_elastic() was called
    store,       \* state index of the elastic store: _id -> document
    putCount,    \* number of PUT requests sent to the store
    lastBody,    \* body of the most recent PUT
    calls,       \* number of _items_state_to_es calls so far
    lastItems,   \* argument of the most recent _items_state_to_es call
    lastRaised,  \* the most recent _items_state_to_es call raised
    storeAtLastNonEmpty, \* store as left by the last non-empty call
    \* ---- grimoire_elk/elk/utils.py
    perceval_backend,      \* argument of get_repository_filter
    perceval_backend_name, \* argument of get_repository_filter
    term,                  \* argument of get_repository_filter
    filter_,               \* value returned by get_repository_filter
    fstate       \* "idle" | "called" | "returned" | "raised"

reposVars == <<tz, now, nrepos, pages, pc, url, all_repos, result, requests,
               lastResp, slept, err>>
backendVars == <<bstate, use_cache, incremental, requested, dirExists, cache,
                 cleanCalls, restoreCalls, elastic, store, putCount, lastBody,
                 calls, lastItems, lastRaised, storeAtLastNonEmpty>>
filterVars == <<perceval_backend, perceval_backend_name, term, filter_,
                fstate>>
vars == <<reposVars, backendVars, filterVars>>

Min(a, b) == IF a < b THEN a ELSE b

RECURSIVE Concat(_)
Concat(ss) == IF ss = <<>> THEN <<>> ELSE Head(ss) \o Concat(Tail(ss))

\* ================================================================ remote
\* updated_at strings as the API prints them
Stamps == {"2016-01-01T00:00:00Z", "2016-01-02T00:00:00Z",
           "2016-01-02T01:00:00+01:00"}

\* dateutil's parser.parse: the instant a stamp denotes (days since 2016-01-01)
ParseDate(s) == CASE s = "2016-01-01T00:00:00Z" -> 0
                  [] s = "2016-01-02T00:00:00Z" -> 1
                  [] s = "2016-01-02T01:00:00+01:00" -> 1

Sizes == {1, 2}

\* what one record of a page can look like, its name aside
RepoPool == {[fork |-> FALSE, updated_at |-> "2016-01-01T00:00:00Z", size |-> 2],
             [fork |-> TRUE,  updated_at |-> "2016-01-02T00:00:00Z", size |-> 1],
             [fork |-> FALSE, updated_at |-> "2016-01-02T00:00:00Z", size |-> 1]}

Names == <<"a", "b", "c", "d", "e", "f", "g", "h", "i">>

Repo(p, n) == [name |-> n, fork |-> p.fork, updated_at |-> p.updated_at,
               size |-> p.size]

\* pages of 1..MaxPerPage records; the record at position i of page j is
\* named after its place in the whole collection
PageOf(j, ps) == [i \in 1..Len(ps) |-> Repo(ps[i], Names[(j - 1) * MaxPerPage + i])]

PageShapes == UNION {[1..n -> RepoPool] : n \in 1..MaxPerPage}

Chains == UNION {{[j \in 1..k |-> PageOf(j, c[j])] : c \in [1..k -> PageShapes]}
                 : k \in 1..MaxPages}

TzOffsets == {0, 3600}

ResetDeltas == {-10, 5}

Statuses == {200, 403, 404, 500}

NoHeaders == [h \in {} |-> 0]

\* the state index before anything was written to it
EmptyStore == [t \in {} |-> 0]

\* header sets a response can carry at time t
HeaderSets(t) ==
    {NoHeaders}
    \cup {[h \in {"X-RateLimit-Remaining"} |-> rem] : rem \in {0}}
    \cup {[h \in {"X-RateLimit-Reset"} |-> t + d] : d \in {5}}
    \cup {[h \in {"X-RateLimit-Remaining", "X-RateLimit-Reset"} |->
              IF h = "X-RateLimit-Remaining" THEN rem ELSE t + d]
          : rem \in {0, 1}, d \in ResetDeltas}

\* answers to one GET: no connection at all, or a status with headers
ConnFailed == [status |-> 0, headers |-> NoHeaders]
Responses(t) == {ConnFailed}
                \cup {[status |-> s, headers |-> h] : s \in Statuses,
                                                       h \in HeaderSets(t)}

\* ============================================================ get_git_repos
\* r.raise_for_status(): raises HTTPError for 4xx and 5xx
RaisesForStatus(r) == r.status >= 400

\* as SecondsToReset, had the whole timedelta been used (total_seconds)
SecondsToReset_TotalSeconds(reset, t, off) == ((reset + off) - t) + 1

\* (datetime.fromtimestamp(reset) - datetime.utcnow()).seconds + 1
\* fromtimestamp gives local wall time, utcnow gives UTC wall time, and
\* timedelta.seconds is the non-negative remainder below one day
SecondsToReset(reset, t, off) == (((reset + off) - t) % DaySeconds) + 1

\* as StableSortAsc, had equal keys come out in reverse order
StableSortAsc_TiesReversed(s, keys) ==
    LET n == Len(s)
        Rank(i) == 1 + Cardinality({j \in 1..n :
                        \/ keys[j] < keys[i]
                        \/ keys[j] = keys[i] /\ j > i})
    IN [p \in 1..n |-> s[CHOOSE i \in 1..n : Rank(i) = p]]

\* sorted(s, key=...): stable, ascending; keys[i] is the key of s[i]
StableSortAsc(s, keys) ==
    LET n == Len(s)
        Rank(i) == 1 + Cardinality({j \in 1..n :
                        \/ keys[j] < keys[i]
                        \/ keys[j] = keys[i] /\ j < i})
    IN [p \in 1..n |-> s[CHOOSE i \in 1..n : Rank(i) = p]]

\* as StableSortDesc, without reverse=True
StableSortDesc_Ascending(s, keys) == StableSortAsc(s, keys)

\* sorted(s, key=..., reverse=True): stable, descending
StableSortDesc(s, keys) ==
    LET n == Len(s)
        Rank(i) == 1 + Cardinality({j \in 1..n :
                        \/ keys[j] > keys[i]
                        \/ keys[j] = keys[i] /\ j < i})
    IN [p \in 1..n |-> s[CHOOSE i \in 1..n : Rank(i) = p]]

IsNotFork(repo) == ~repo.fork
UpdatedKey(repo) == ParseDate(repo.updated_at)
SizeKey(repo) == repo.size

\* the filtering stage that ends get_repositories
Shape(repos, n) ==
    LET nrepos_recent == SelectSeq(repos, IsNotFork)
        by_update     == StableSortDesc(nrepos_recent,
                             [i \in DOMAIN nrepos_recent |->
                                 UpdatedKey(nrepos_recent[i])])
        nrepos_sorted == IF n > 0
                         THEN SubSeq(by_update, 1, Min(n, Len(by_update)))
                         ELSE by_update
    IN StableSortAsc(nrepos_sorted,
                     [i \in DOMAIN nrepos_sorted |-> SizeKey(nrepos_sorted[i])])

Get(ep, idx, r) ==
    /\ requests' = Append(requests, [ep |-> ep, idx |-> idx])
    /\ lastResp' = r

\* the exception leaves get_repositories
Raise(e) ==
    /\ pc' = "raised"
    /\ err' = e

\* break out of the page loop, filter and return
Return(repos) ==
    /\ pc' = "done"
    /\ result' = Shape(repos, nrepos)

\* ------------------------------------------------- get_owner_repos_url
\* the probe of the org endpoint is answered without an HTTP error
ProbeOK ==
    /\ pc = "probe"
    /\ \E r \in Responses(now) :
          /\ r # ConnFailed /\ ~RaisesForStatus(r)
          /\ Get("org", 1, r)
    /\ pc' = "page"
    /\ url' = [ep |-> "org", idx |-> 1]
    /\ UNCHANGED <<tz, now, nrepos, pages, all_repos, result, slept, err>>
    /\ UNCHANGED <<backendVars, filterVars>>

\* requests.get raises ConnectionError, which the probe does not catch
ProbeConnError ==
    /\ pc = "probe"
    /\ Get("org", 1, ConnFailed)
    /\ Raise("ConnectionError")
    /\ UNCHANGED <<tz, now, nrepos, pages, url, all_repos, result, slept>>
    /\ UNCHANGED <<backendVars, filterVars>>

\* 403 with X-RateLimit-Reset: sleep, then go on with the org endpoint
ProbeRateLimited ==
    /\ pc = "probe"
    /\ \E r \in Responses(now) :
          /\ r.status = 403
          /\ "X-RateLimit-Reset" \in DOMAIN r.headers
          /\ Get("org", 1, r)
          /\ LET seconds_to_reset ==
                     SecondsToReset(r.headers["X-RateLimit-Reset"], now, tz)
             IN /\ slept' = Append(slept, seconds_to_reset)
                /\ now' = now + seconds_to_reset
    /\ pc' = "page"
    /\ url' = [ep |-> "org", idx |-> 1]
    /\ UNCHANGED <<tz, nrepos, pages, all_repos, result, err>>
    /\ UNCHANGED <<backendVars, filterVars>>

\* as ProbeForbiddenNoReset, had the header been read with a default of
\* "now": sleep one second and go on with the org endpoint
ProbeForbiddenNoReset_DefaultWait ==
    /\ pc = "probe"
    /\ \E r \in Responses(now) :
          /\ r.status = 403
          /\ "X-RateLimit-Reset" \notin DOMAIN r.headers
          /\ Get("org", 1, r)
    /\ slept' = Append(slept, 1)
    /\ now' = now + 1
    /\ pc' = "page"
    /\ url' = [ep |-> "org", idx |-> 1]
    /\ UNCHANGED <<tz, nrepos, pages, all_repos, result, err>>
    /\ UNCHANGED <<backendVars, filterVars>>

\* 403 without X-RateLimit-Reset: r.headers[...] raises KeyError
ProbeForbiddenNoReset ==
    /\ pc = "probe"
    /\ \E r \in Responses(now) :
          /\ r.status = 403
          /\ "X-RateLimit-Reset" \notin DOMAIN r.headers
          /\ Get("org", 1, r)
    /\ Raise("KeyError")
    /\ UNCHANGED <<tz, now, nrepos, pages, url, all_repos, result, slept>>
    /\ UNCHANGED <<backendVars, filterVars>>


\* as ProbeHTTPError, had url_owner been left at the org endpoint
ProbeHTTPError_KeepsOrg ==
    /\ pc = "probe"
    /\ \E r \in Responses(now) :
          /\ r # ConnFailed /\ RaisesForStatus(r) /\ r.status # 403
          /\ Get("org", 1, r)
    /\ pc' = "page"
    /\ url' = [ep |-> "org", idx |-> 1]
    /\ UNCHANGED <<tz, now, nrepos, pages, all_repos, result, slept, err>>
    /\ UNCHANGED <<backendVars, filterVars>>

\* any other HTTP error: the owner is taken to be a user
ProbeHTTPError ==
    /\ pc = "probe"
    /\ \E r \in Responses(now) :
          /\ r # ConnFailed /\ RaisesForStatus(r) /\ r.status # 403
          /\ Get("org", 1, r)
    /\ pc' = "page"
    /\ url' = [ep |-> "user", idx |-> 1]
    /\ UNCHANGED <<tz, now, nrepos, pages, all_repos, result, slept, err>>
    /\ UNCHANGED <<backendVars, filterVars>>

\* ------------------------------------------- get_repositories, page loop
\* as HasNext, had the loop never looked for the link
HasNext_Never(idx) == FALSE

\* 'next' in r.links
HasNext(idx) == idx < Len(pages)

\* a page arrives and carries a next link: follow it
PageNext ==
    /\ pc = "page"
    /\ \E r \in Responses(now) :
          /\ r # ConnFailed /\ ~RaisesForStatus(r)
          /\ "X-RateLimit-Remaining" \in DOMAIN r.headers
          /\ Get(url.ep, url.idx, r)
    /\ HasNext(url.idx)
    /\ all_repos' = all_repos \o pages[url.idx]
    /\ url' = [ep |-> url.ep, idx |-> url.idx + 1]
    /\ UNCHANGED <<tz, now, nrepos, pages, pc, result, slept, err>>
    /\ UNCHANGED <<backendVars, filterVars>>

\* a page arrives without a next link: break, filter, return
PageLast ==
    /\ pc = "page"
    /\ \E r \in Responses(now) :
          /\ r # ConnFailed /\ ~RaisesForStatus(r)
          /\ "X-RateLimit-Remaining" \in DOMAIN r.headers
          /\ Get(url.ep, url.idx, r)
    /\ ~HasNext(url.idx)
    /\ all_repos' = all_repos \o pages[url.idx]
    /\ Return(all_repos')
    /\ UNCHANGED <<tz, now, nrepos, pages, url, slept, err>>
    /\ UNCHANGED <<backendVars, filterVars>>

\* a page arrives without X-RateLimit-Remaining: the debug line raises
\* KeyError after the records were added
PageNoRemaining ==
    /\ pc = "page"
    /\ \E r \in Responses(now) :
          /\ r # ConnFailed /\ ~RaisesForStatus(r)
          /\ "X-RateLimit-Remaining" \notin DOMAIN r.headers
          /\ Get(url.ep, url.idx, r)
    /\ all_repos' = all_repos \o pages[url.idx]
    /\ Raise("KeyError")
    /\ UNCHANGED <<tz, now, nrepos, pages, url, result, slept>>
    /\ UNCHANGED <<backendVars, filterVars>>

\* 4xx or 5xx on a page: HTTPError is not caught by the loop
PageHTTPError ==
    /\ pc = "page"
    /\ \E r \in Responses(now) :
          /\ r # ConnFailed /\ RaisesForStatus(r)
          /\ Get(url.ep, url.idx, r)
    /\ Raise("HTTPError")
    /\ UNCHANGED <<tz, now, nrepos, pages, url, all_repos, result, slept>>
    /\ UNCHANGED <<backendVars, filterVars>>

\* as PageConnError, had the handler returned without the records so far
PageConnError_Discards ==
    /\ pc = "page"
    /\ Get(url.ep, url.idx, ConnFailed)
    /\ Return(<<>>)
    /\ UNCHANGED <<tz, now, nrepos, pages, url, all_repos, slept, err>>
    /\ UNCHANGED <<backendVars, filterVars>>

\* ConnectionError on a page: logged, break, filter, return
PageConnError ==
    /\ pc = "page"
    /\ Get(url.ep, url.idx, ConnFailed)
    /\ Return(all_repos)
    /\ UNCHANGED <<tz, now, nrepos, pages, url, all_repos, slept, err>>
    /\ UNCHANGED <<backendVars, filterVars>>

\* ================================================================ backend
\* values of the unique id field: the integer 1, the string "1", the string "2"
IdValues == {[type |-> "int", text |-> "1"],
             [type |-> "str", text |-> "1"],
             [type |-> "str", text |-> "2"]}

Payloads == {"x", "y"}

\* JSON items of the data source; field_id is "id"
Items == [id : IdValues, body : Payloads]

ItemLists == UNION {[1..n -> Items] : n \in 0..MaxItems}

\* '%s' % value
Str(v) == v.text

\* '{"index" : {"_id" : "%s" } }\n' % (item[field_id])
IndexLine(item) == [index |-> [_id |-> Str(item.id)]]

\* json.dumps(item) + "\n"
DocLine(item) == [doc |-> item]

\* as BulkJson, had each item been put in front of the text built so far
RECURSIVE BulkJson_Prepending(_)
BulkJson_Prepending(json_items) ==
    IF json_items = <<>> THEN <<>>
    ELSE BulkJson_Prepending(Tail(json_items))
         \o <<IndexLine(Head(json_items)), DocLine(Head(json_items))>>

\* bulk_json as built by the loop of _items_state_to_es, one entry per line
RECURSIVE BulkJson(_)
BulkJson(json_items) ==
    IF json_items = <<>> THEN <<>>
    ELSE <<IndexLine(Head(json_items)), DocLine(Head(json_items))>>
         \o BulkJson(Tail(json_items))

\* what the _bulk endpoint does with a body: each index directive stores
\* the document that follows it under the directive's _id
ApplyBulk(st, body) ==
    LET n   == Len(body) \div 2
        ids == {body[2 * k - 1].index._id : k \in 1..n}
        Last(t) == CHOOSE k \in 1..n :
                      /\ body[2 * k - 1].index._id = t
                      /\ \A m \in (k + 1)..n : body[2 * m - 1].index._id # t
    IN [t \in DOMAIN st \cup ids |->
           IF t \in ids THEN body[2 * Last(t)].doc ELSE st[t]]

\* as NothingToPersist, without the guard
NothingToPersist_Never(json_items) == FALSE

\* "if len(json_items) == 0: return"
NothingToPersist(json_items) == Len(json_items) = 0

\* as EffectiveIncremental, without the override
EffectiveIncremental_Requested(uc, inc) == inc

\* "if self.use_cache: self.incremental = False"
EffectiveIncremental(uc, inc) == IF uc THEN FALSE ELSE inc

\* as RestoreState, had it raised like the other placeholders of the class
RestoreState_NotImplemented == [incremental |-> TRUE, raised |-> TRUE]

\* as RestoreState, had it only logged
RestoreState_KeepsIncremental == [incremental |-> TRUE, raised |-> FALSE]

\* Backend._restore_state: logs and turns incremental off
RestoreState == [incremental |-> FALSE, raised |-> FALSE]

\* as CleansCache, without the test of use_cache
CleansCache_WithCache(uc, inc) == ~inc

\* "else: if not self.use_cache: self.cache.clean()"
CleansCache(uc, inc) == ~inc /\ ~uc

\* Backend.__init__(use_cache, incremental); creatable says whether
\* os.makedirs can create the storage dir
Construct ==
    /\ bstate = "none"
    /\ \E uc \in BOOLEAN, inc \in BOOLEAN, creatable \in BOOLEAN :
          /\ requested' = [use_cache |-> uc, incremental |-> inc]
          /\ use_cache' = uc
          /\ IF ~dirExists /\ ~creatable
             THEN \* os.makedirs raises
                  /\ bstate' = "raised"
                  /\ incremental' = inc
                  /\ UNCHANGED <<dirExists, cache, cleanCalls, restoreCalls>>
             ELSE LET eff == EffectiveIncremental(uc, inc)
                  IN /\ dirExists' = TRUE
                     /\ IF eff
                        THEN /\ restoreCalls' = restoreCalls + 1
                             /\ incremental' = RestoreState.incremental
                             /\ bstate' = IF RestoreState.raised
                                          THEN "raised" ELSE "ready"
                             /\ UNCHANGED <<cache, cleanCalls>>
                        ELSE /\ incremental' = eff
                             /\ bstate' = "ready"
                             /\ IF CleansCache(uc, eff)
                                THEN /\ cache' = {}
                                     /\ cleanCalls' = cleanCalls + 1
                                ELSE UNCHANGED <<cache, cleanCalls>>
                             /\ UNCHANGED restoreCalls
    /\ UNCHANGED <<elastic, store, putCount, lastBody, calls, lastItems,
                   lastRaised, storeAtLastNonEmpty>>
    /\ UNCHANGED <<reposVars, filterVars>>

\* Backend.set_elastic
SetElastic ==
    /\ bstate = "ready"
    /\ ~elastic
    /\ elastic' = TRUE
    /\ UNCHANGED <<bstate, use_cache, incremental, requested, dirExists, cache,
                   cleanCalls, restoreCalls, store, putCount, lastBody, calls,
                   lastItems, lastRaised, storeAtLastNonEmpty>>
    /\ UNCHANGED <<reposVars, filterVars>>

\* Backend._items_state_to_es(json_items)
ItemsStateToEs ==
    /\ bstate = "ready"
    /\ calls < MaxCalls
    /\ \E json_items \in ItemLists :
          /\ lastItems' = json_items
          /\ IF NothingToPersist(json_items)
             THEN /\ lastRaised' = FALSE
                  /\ UNCHANGED <<store, putCount, lastBody>>
             ELSE IF ~elastic
             THEN \* self.elastic is not set: AttributeError
                  /\ lastRaised' = TRUE
                  /\ UNCHANGED <<store, putCount, lastBody>>
             ELSE /\ lastRaised' = FALSE
                  /\ lastBody' = BulkJson(json_items)
                  /\ putCount' = putCount + 1
                  /\ store' = ApplyBulk(store, lastBody')
          /\ storeAtLastNonEmpty' = IF json_items = <<>>
                                    THEN storeAtLastNonEmpty ELSE store'
    /\ calls' = calls + 1
    /\ UNCHANGED <<bstate, use_cache, incremental, requested, dirExists, cache,
                   cleanCalls, restoreCalls, elastic>>
    /\ UNCHANGED <<reposVars, filterVars>>

\* ============================================================ elk/utils.py
\* the match-all filter {}
EmptyFilter == [k \in {} |-> ""]

\* origin and tag values: empty, plain, holding a double quote, holding a
\* backslash
FilterValues == {"", "https://github.com/o/r", "group", "say \"hi\"",
                 "C:\\temp"}

\* None, or an object with an origin and a tag
NoBackend == [present |-> FALSE, origin |-> "", tag |-> ""]
PercevalBackends == {NoBackend}
                    \cup [present : {TRUE}, origin : FilterValues,
                          tag : FilterValues]

SourceNames == {"meetup", "nntp", "stackexchange", "jira", "git", "github"}

\* perceval_backend_name in ["meetup", "nntp", "stackexchange", "jira"]
TagSources == {"meetup", "nntp", "stackexchange", "jira"}

\* what json.loads reads back from '"%s"' % v: the characters as they are,
\* an escape sequence replaced by the character it denotes, or an error
\* when the text between the quotes is not a JSON string
JsonLoadsQuoted(v) ==
    CASE v = "say \"hi\"" -> [ok |-> FALSE, value |-> ""]
      [] v = "C:\\temp"   -> [ok |-> TRUE,  value |-> "C:\temp"]
      [] OTHER            -> [ok |-> TRUE,  value |-> v]

\* as IsEmptyValue, without the final test
IsEmptyValue_Never(value) == FALSE

\* "if value == '':"
IsEmptyValue(value) == value = ""

\* get_repository_filter(b, name, t): the exception flag and the filter
RepositoryFilter(b, name, t) ==
    IF ~b.present
    THEN [raised |-> FALSE, filter |-> EmptyFilter]
    ELSE LET field  == IF name \in TagSources THEN "tag" ELSE "origin"
             value  == IF name \in TagSources THEN b.tag ELSE b.origin
             loaded == JsonLoadsQuoted(value)
         IN IF t /\ ~loaded.ok
            THEN [raised |-> TRUE, filter |-> EmptyFilter]
            ELSE IF IsEmptyValue(value)
            THEN [raised |-> FALSE, filter |-> EmptyFilter]
            ELSE IF ~t
            THEN [raised |-> FALSE,
                  filter |-> [name |-> field, value |-> value]]
            ELSE [raised |-> FALSE,
                  filter |-> [term |-> [k \in {field} |-> loaded.value]]]

\* one call of get_repository_filter
GetRepositoryFilter ==
    /\ fstate = "called"
    /\ LET out == RepositoryFilter(perceval_backend, perceval_backend_name,
                                   term)
       IN /\ fstate' = IF out.raised THEN "raised" ELSE "returned"
          /\ filter_' = out.filter
    /\ UNCHANGED <<perceval_backend, perceval_backend_name, term>>
    /\ UNCHANGED <<reposVars, backendVars>>

FilterIdle ==
    /\ perceval_backend = NoBackend
    /\ perceval_backend_name = "git"
    /\ term = FALSE
    /\ filter_ = EmptyFilter
    /\ fstate = "idle"

BackendStart ==
    /\ bstate = "none"
    /\ use_cache = FALSE
    /\ incremental = FALSE
    /\ requested = [use_cache |-> FALSE, incremental |-> FALSE]
    /\ dirExists \in BOOLEAN
    /\ cache \in {{}, {"1"}}
    /\ ~dirExists => cache = {}
    /\ cleanCalls = 0
    /\ restoreCalls = 0
    /\ elastic = FALSE
    /\ store = EmptyStore
    /\ putCount = 0
    /\ lastBody = <<>>
    /\ calls = 0
    /\ lastItems = <<>>
    /\ lastRaised = FALSE
    /\ storeAtLastNonEmpty = EmptyStore

ReposIdle ==
    /\ tz = 0
    /\ now = StartTime
    /\ nrepos = 0
    /\ pages = <<>>
    /\ pc = "idle"
    /\ url = [ep |-> "org", idx |-> 1]
    /\ all_repos = <<>>
    /\ result = <<>>
    /\ requests = <<>>
    /\ lastResp = ConnFailed
    /\ slept = <<>>
    /\ err = "none"

BackendIdle ==
    /\ BackendStart
    /\ dirExists = FALSE

Init ==
    /\ tz \in TzOffsets
    /\ now = StartTime
    /\ nrepos \in 0..MaxNrepos
    /\ pages \in Chains
    /\ pc = "probe"
    /\ url = [ep |-> "org", idx |-> 1]
    /\ all_repos = <<>>
    /\ result = <<>>
    /\ requests = <<>>
    /\ lastResp = ConnFailed
    /\ slept = <<>>
    /\ err = "none"
    /\ BackendIdle
    /\ FilterIdle

Next ==
    \/ ProbeOK
    \/ ProbeConnError
    \/ ProbeRateLimited
    \/ ProbeForbiddenNoReset
    \/ ProbeHTTPError
    \/ PageNext
    \/ PageLast
    \/ PageNoRemaining
    \/ PageHTTPError
    \/ PageConnError

Spec == Init /\ [][Next]_vars

InitBackend ==
    /\ ReposIdle
    /\ BackendStart
    /\ FilterIdle

NextBackend ==
    \/ Construct
    \/ SetElastic
    \/ ItemsStateToEs

SpecBackend == InitBackend /\ [][NextBackend]_vars

\* ------------------------------------------------ the backoff on its own
\* host timezone offsets, from UTC-12 to UTC+14
SleepTz == {-43200, -12600, -3600, 0, 3600, 19800, 50400}

\* reset time of the 403 relative to the clock: past, present and future
SleepDeltas == {-86401, -86400, -3601, -10, -1, 0, 1, 5, 3599, 3600, 86399,
                86400, 90000}

\* the 403 branch of get_owner_repos_url for any reset time
RateLimitSleep ==
    /\ pc = "limited"
    /\ \E d \in SleepDeltas :
          LET r == [status |-> 403,
                    headers |-> [h \in {"X-RateLimit-Reset"} |-> now + d]]
              seconds_to_reset ==
                  SecondsToReset(r.headers["X-RateLimit-Reset"], now, tz)
          IN /\ Get("org", 1, r)
             /\ slept' = Append(slept, seconds_to_reset)
             /\ now' = now + seconds_to_reset
    /\ pc' = "slept"
    /\ UNCHANGED <<tz, nrepos, pages, url, all_repos, result, err>>
    /\ UNCHANGED <<backendVars, filterVars>>

InitSleep ==
    /\ tz \in SleepTz
    /\ now \in StartTime..(StartTime + 1)
    /\ nrepos = 0
    /\ pages = <<>>
    /\ pc = "limited"
    /\ url = [ep |-> "org", idx |-> 1]
    /\ all_repos = <<>>
    /\ result = <<>>
    /\ requests = <<>>
    /\ lastResp = ConnFailed
    /\ slept = <<>>
    /\ err = "none"
    /\ BackendIdle
    /\ FilterIdle

NextSleep == RateLimitSleep

SpecSleep == InitSleep /\ [][NextSleep]_vars

\* ---------------------------------------- the filtering stage on its own
\* records as the API can return them
ShapeRecords == [fork : BOOLEAN, updated_at : Stamps, size : Sizes]

\* record lists of up to MaxRecords records, named by position
RecordLists == UNION {{[i \in 1..n |-> Repo(ps[i], Names[i])]
                        : ps \in [1..n -> ShapeRecords]} : n \in 0..MaxRecords}

\* lines 134-146 applied to all_repos
Filter ==
    /\ pc = "filter"
    /\ result' = Shape(all_repos, nrepos)
    /\ pc' = "shaped"
    /\ UNCHANGED <<tz, now, nrepos, pages, url, all_repos, requests, lastResp,
                   slept, err>>
    /\ UNCHANGED <<backendVars, filterVars>>

\* lines 134-146 applied to their own output
FilterAgain ==
    /\ pc = "shaped"
    /\ all_repos' = result
    /\ result' = Shape(result, nrepos)
    /\ pc' = "reshaped"
    /\ UNCHANGED <<tz, now, nrepos, pages, url, requests, lastResp, slept, err>>
    /\ UNCHANGED <<backendVars, filterVars>>

InitShape ==
    /\ tz = 0
    /\ now = StartTime
    /\ nrepos \in -1..(MaxNrepos + 1)
    /\ pages = <<>>
    /\ pc = "filter"
    /\ url = [ep |-> "org", idx |-> 1]
    /\ all_repos \in RecordLists
    /\ result = <<>>
    /\ requests = <<>>
    /\ lastResp = ConnFailed
    /\ slept = <<>>
    /\ err = "none"
    /\ BackendIdle
    /\ FilterIdle

NextShape ==
    \/ Filter
    \/ FilterAgain

SpecShape == InitShape /\ [][NextShape]_vars

InitFilter ==
    /\ ReposIdle
    /\ BackendIdle
    /\ perceval_backend \in PercevalBackends
    /\ perceval_backend_name \in SourceNames
    /\ term \in BOOLEAN
    /\ filter_ = EmptyFilter
    /\ fstate = "called"

NextFilter == GetRepositoryFilter

SpecFilter == InitFilter /\ [][NextFilter]_vars

\* ================================================================= claims
\* number of page requests issued so far (requests[1] is the org probe)
PagesGot == Len(requests) - 1

Has(r, h) == h \in DOMAIN r.headers

\* C1 (as claimed): no GET is issued while the most recently observed
\* budget is remaining = 0 and the clock is still before its reset time.
C1_NoGetWhileExhausted ==
    [][Len(requests') > Len(requests) =>
          ~(/\ Has(lastResp, "X-RateLimit-Remaining")
            /\ Has(lastResp, "X-RateLimit-Reset")
            /\ lastResp.headers["X-RateLimit-Remaining"] = 0
            /\ now < lastResp.headers["X-RateLimit-Reset"])]_vars

\* C2: a Backend built with use_cache = true has incremental = false once
\* construction has finished, whatever was requested, and _restore_state
\* was never called; use_cache and incremental are never both true.
C2_CacheExcludesIncremental ==
    /\ requested.use_cache => restoreCalls = 0
    /\ bstate = "ready" /\ requested.use_cache => ~incremental
    /\ bstate = "ready" => ~(use_cache /\ incremental)

C2_Witness ==
    /\ bstate = "ready"
    /\ requested = [use_cache |-> TRUE, incremental |-> TRUE]
    /\ use_cache
    /\ ~incremental

\* C3 (as claimed): every construction that ends in FRESH mode
\* (incremental = false, use_cache = false) has cleared the cache.
C3_FreshHasClearedCache ==
    (bstate = "ready" /\ ~incremental /\ ~use_cache) =>
        (cleanCalls >= 1 /\ cache = {})

\* C4: when restore is attempted (incremental requested, no cache) and
\* finds nothing, construction completes without raising and the backend
\* is left with incremental = false and use_cache = false.
C4_DegradedRestore ==
    /\ restoreCalls >= 1 =>
          /\ bstate = "ready"
          /\ ~incremental
          /\ ~use_cache
    /\ (bstate # "none" /\ dirExists /\ requested.incremental
          /\ ~requested.use_cache) => restoreCalls = 1

C4_Witness ==
    /\ bstate = "ready"
    /\ requested = [use_cache |-> FALSE, incremental |-> TRUE]
    /\ restoreCalls = 1
    /\ ~incremental

\* C5: a persist call with an empty list sends no PUT and leaves the
\* stored state as it was; the stored state is always the one left by the
\* last non-empty call.
C5_EmptyPersistIsNoOp ==
    /\ [](store = storeAtLastNonEmpty)
    /\ [][(calls' = calls + 1 /\ lastItems' = <<>>) =>
             /\ putCount' = putCount
             /\ store' = store
             /\ lastBody' = lastBody
             /\ ~lastRaised']_vars

C5_Witness ==
    /\ calls >= 2
    /\ lastItems = <<>>
    /\ putCount >= 1
    /\ store # EmptyStore

\* what the page loop has done after m pages that all arrived: one request
\* per page, in order, on one endpoint, records concatenated in page order,
\* and the loop is over exactly when the last page was the one without link
LoopFollowedChain(m) ==
    /\ m <= Len(pages)
    /\ \A i \in 1..m : requests[i + 1] = [ep |-> requests[2].ep, idx |-> i]
    /\ all_repos = Concat(SubSeq(pages, 1, m))
    /\ pc = (IF m = Len(pages) THEN "done" ELSE "page")
    /\ err = "none"

C7_ConnErrorKeepsPartial ==
    /\ []((PagesGot >= 1 /\ lastResp = ConnFailed) =>
            /\ pc = "done"
            /\ err = "none"
            /\ result = Shape(Concat(SubSeq(pages, 1, PagesGot - 1)), nrepos))
    /\ [][pc # "done"]_vars

C7_Witness ==
    /\ pc = "done"
    /\ lastResp = ConnFailed
    /\ PagesGot >= 2
    /\ result # <<>>

\* C8 (as claimed): a 4xx/5xx other than 403 on page j halts the loop and
\* the records of pages 1..j-1 are returned to the caller.
C8_HTTPErrorKeepsPartial ==
    (PagesGot >= 1 /\ lastResp.status >= 400 /\ lastResp.status # 403) =>
        /\ pc = "done"
        /\ err = "none"
        /\ result = Shape(Concat(SubSeq(pages, 1, PagesGot - 1)), nrepos)

\* C9 (as claimed): after a 403 with a reset header, on the probe or on a
\* page, the program has slept and is about to repeat that request, and no
\* error has reached the caller.
C9_RateLimitRecovered ==
    (Len(requests) >= 1 /\ lastResp.status = 403
       /\ Has(lastResp, "X-RateLimit-Reset")) =>
        /\ err = "none"
        /\ pc = "page"
        /\ url = requests[Len(requests)]
        /\ slept # <<>>

\* C10: a 403 without reset header makes the program sleep not at all and
\* raise to the caller; nothing is done after the exception.
C10_ForbiddenNoResetFailsFast ==
    [][/\ pc # "raised"
       /\ (/\ Len(requests') > Len(requests)
           /\ lastResp'.status = 403
           /\ ~Has(lastResp', "X-RateLimit-Reset")) =>
              /\ slept' = slept
              /\ now' = now
              /\ pc' = "raised"
              /\ err' # "none"]_vars

C10_Witness ==
    /\ pc = "raised"
    /\ PagesGot = 0
    /\ lastResp.status = 403
    /\ ~Has(lastResp, "X-RateLimit-Reset")
    /\ err = "KeyError"
    /\ slept = <<>>

\* C11: a probe answered with an HTTP error other than 403 sends the page
\* loop to the user endpoint; from then on only the user endpoint is
\* requested (the org endpoint was requested once, by the probe), and an
\* HTTP error on the first user request raises to the caller without any
\* further request.
C11_UserFallbackOnce ==
    /\ [][(/\ pc = "probe"
           /\ Len(requests') > Len(requests)
           /\ lastResp'.status >= 400
           /\ lastResp'.status # 403) =>
              /\ pc' = "page"
              /\ url' = [ep |-> "user", idx |-> 1]]_vars
    /\ [](url.ep = "user" =>
             /\ requests[1].ep = "org"
             /\ \A i \in 2..Len(requests) : requests[i].ep = "user")
    /\ [][(/\ pc = "page" /\ url.ep = "user" /\ PagesGot = 0
           /\ Len(requests') > Len(requests)
           /\ lastResp'.status >= 400) =>
              /\ pc' = "raised"
              /\ err' = "HTTPError"
              /\ requests' = <<[ep |-> "org", idx |-> 1],
                               [ep |-> "user", idx |-> 1]>>]_vars
    /\ [][pc # "raised"]_vars

C11_Witness ==
    /\ pc = "raised"
    /\ err = "HTTPError"
    /\ requests = <<[ep |-> "org", idx |-> 1], [ep |-> "user", idx |-> 1]>>
    /\ lastResp.status = 404

\* the clock when the 403 was handled, and the reset time it carried
SleptFrom == now - slept[1]
SleptReset == lastResp.headers["X-RateLimit-Reset"]

\* C12 (as claimed): for a reset time R not before the current time T the
\* sleep lasts at least R - T and at most R - T + 1 seconds, whatever the
\* host timezone.
C12_SleepUntilReset ==
    (pc = "slept" /\ SleptReset >= SleptFrom) =>
        /\ slept[1] >= SleptReset - SleptFrom
        /\ slept[1] <= SleptReset - SleptFrom + 1

\* C20: every duration handed to sleep lies in 1..86400, also for a reset
\* time that is already past.
C20_SleepInRange ==
    \A i \in DOMAIN slept : slept[i] >= 1 /\ slept[i] <= DaySeconds

C20_Witness ==
    /\ pc = "slept"
    /\ SleptReset < SleptFrom
    /\ slept[1] >= 1
    /\ slept[1] <= DaySeconds

\* positions of the non-forks of all_repos
NonForks == {i \in DOMAIN all_repos : ~all_repos[i].fork}

\* record j was updated after record i, or at the same instant and fetched
\* before it
Newer(j, i) ==
    \/ ParseDate(all_repos[j].updated_at) > ParseDate(all_repos[i].updated_at)
    \/ /\ ParseDate(all_repos[j].updated_at) = ParseDate(all_repos[i].updated_at)
       /\ j < i

\* the non-forks with fewer than nrepos newer non-forks; all of them when
\* nrepos is not positive
Kept ==
    IF nrepos > 0
    THEN {i \in NonForks : Cardinality({j \in NonForks : Newer(j, i)}) < nrepos}
    ELSE NonForks

\* C13: the result holds no fork; it holds min(nrepos, non-forks) records
\* when nrepos > 0, the most recently updated ones with ties going to the
\* record fetched first, and every non-fork otherwise; it is ordered
\* ascending by size.
C13_ShapeSelects ==
    pc = "shaped" =>
        /\ \A k \in DOMAIN result : ~result[k].fork
        /\ Len(result) = (IF nrepos > 0
                          THEN Min(nrepos, Cardinality(NonForks))
                          ELSE Cardinality(NonForks))
        /\ {result[k] : k \in DOMAIN result} = {all_repos[i] : i \in Kept}
        /\ \A k, l \in DOMAIN result : k < l => result[k].size <= result[l].size

C13_Witness ==
    /\ pc = "shaped"
    /\ nrepos > 0
    /\ Cardinality(NonForks) > nrepos
    /\ NonForks # DOMAIN all_repos
    /\ Len(result) = nrepos
    /\ \E i \in NonForks, j \in NonForks :
          i # j /\ ~Newer(i, j) /\ Newer(j, i) /\ j < i

\* C14: filtering the output of the filtering stage again gives the same
\* sequence, also when records share a size or an updated_at.
C14_ShapeIdempotent ==
    pc = "reshaped" => result = all_repos

C14_Witness ==
    /\ pc = "reshaped"
    /\ result = all_repos
    /\ \E k, l \in DOMAIN result :
          /\ k < l
          /\ result[k].size = result[l].size
          /\ ParseDate(result[k].updated_at) = ParseDate(result[l].updated_at)

\* the attribute get_repository_filter selects for the source name
SelectedField ==
    IF perceval_backend_name \in {"meetup", "nntp", "stackexchange", "jira"}
    THEN "tag" ELSE "origin"

SelectedValue ==
    IF SelectedField = "tag" THEN perceval_backend.tag
    ELSE perceval_backend.origin

\* C15: whenever the selected value is the empty string the call returns
\* the match-all filter {}, for every source name and both values of term.
C15_EmptyValueMatchesAll ==
    (fstate # "called" /\ perceval_backend.present /\ SelectedValue = "") =>
        (fstate = "returned" /\ filter_ = EmptyFilter)

C15_Witness ==
    /\ fstate = "returned"
    /\ perceval_backend.present
    /\ term
    /\ perceval_backend_name = "jira"
    /\ perceval_backend.tag = ""
    /\ perceval_backend.origin # ""
    /\ filter_ = EmptyFilter

\* C16 (as claimed): for a present backend with a non-empty selected value
\* the filter is keyed on 'tag' with the tag for meetup, nntp,
\* stackexchange and jira and on 'origin' with the origin otherwise; it is
\* {name: field, value: value} with term = false and
\* {term: {field: value}} with term = true.
C16_FilterOnSelectedField ==
    (fstate # "called" /\ perceval_backend.present /\ SelectedValue # "") =>
        /\ fstate = "returned"
        /\ filter_ = (IF term
                      THEN [term |-> [k \in {SelectedField} |-> SelectedValue]]
                      ELSE [name |-> SelectedField, value |-> SelectedValue])

\* the body the claim describes for the items of the latest call: per item,
\* in order, a directive with the item's id as _id and then the document
IsBulkOf(body, items) ==
    /\ Len(body) = 2 * Len(items)
    /\ \A i \in DOMAIN items :
          /\ body[2 * i - 1] = [index |-> [_id |-> items[i].id.text]]
          /\ body[2 * i] = [doc |-> items[i]]

C18_NeverResuming ==
    bstate = "ready" => ~incremental

C18_Witness ==
    /\ bstate = "ready"
    /\ requested.incremental
    /\ ~requested.use_cache
    /\ ~incremental
    /\ cleanCalls = 0

\* C19: construction with use_cache = true never clears the cache; a
\* construction clears the cache at most once and attempts restore at most
\* once, and never does both.
C19_CleanOrRestore ==
    /\ requested.use_cache => cleanCalls = 0
    /\ cleanCalls <= 1
    /\ restoreCalls <= 1
    /\ cleanCalls + restoreCalls <= 1

C19_Witness ==
    /\ bstate = "ready"
    /\ requested.use_cache
    /\ cache # {}
    /\ cleanCalls = 0
    /\ restoreCalls = 0

====
